---- MODULE Spec2Model ----
(***************************************************************************)
(* chatMol: molecular descriptors and drug-likeness filters computed from  *)
(* SMILES strings (chatmol/properties.py), the CSV batch entry point       *)
(* (chatmol/io.py) and the single-molecule tool (server.py).               *)
(*                                                                         *)
(* The cheminformatics toolkit (RDKit) is external.  A SMILES string is    *)
(* modelled by the record of what the toolkit does on it: whether it       *)
(* parses, the value of every descriptor the rule-sets read, the compute   *)
(* call that throws (if any) and the number of PAINS catalog matches.      *)
(* Real-valued descriptors are fixed-point numbers in hundredths          *)
(* (molecular weight 500.00 is 50000, LogP 5.88 is 588).                   *)
(***************************************************************************)
EXTENDS Integers, Sequences, FiniteSets, TLC

VARIABLES rdkit_available, op, smiles, csv, args, pc, ret

vars == <<rdkit_available, op, smiles, csv, args, pc, ret>>

(***************************************************************************)
(* Bounds of the model.                                                    *)
(***************************************************************************)
MaxDeviations == 1
MaxAlerts == 2
MaxRules == 2
MaxRows == 2

(***************************************************************************)
(* Python values.  float('nan') compares false with everything;            *)
(* float('inf') is above every descriptor value.                           *)
(***************************************************************************)
NaN == -999999
None == -999998
Inf == 999999
\* None where a dictionary is expected: a result that is not there
NoResult == [none |-> TRUE]

Le(a, b) == IF a = NaN \/ b = NaN THEN FALSE ELSE a <= b
Lt(a, b) == IF a = NaN \/ b = NaN THEN FALSE ELSE a < b

Range(seq) == {seq[i] : i \in 1..Len(seq)}
IndexOf(seq, k) == CHOOSE i \in 1..Len(seq) : seq[i] = k

\* the element of a set of one element.  Only({e : x \in {v}}) is e with x
\* naming the value of v, computed once: an assignment to a local variable
Only(S) == CHOOSE x \in S : TRUE

\* dict.get(key, default)
Get(d, k, default) == IF k \in DOMAIN d THEN d[k] ELSE default

\* dict.update(other)
Update(d, other) ==
  [k \in (DOMAIN d) \cup (DOMAIN other) |-> IF k \in DOMAIN other THEN other[k] ELSE d[k]]

(***************************************************************************)
(* The descriptor keys of calculate_all_properties, in the order in which  *)
(* the function computes them.                                             *)
(***************************************************************************)
ScalarKeysA ==
  << "molecular_weight", "exact_mol_wt", "heavy_atom_mol_wt", "formula",
     "logp", "mol_mr", "tpsa", "labute_asa",
     "num_h_donors", "num_h_acceptors", "num_rotatable_bonds", "heavy_atom_count",
     "num_hetero_atoms", "no_count", "nhoh_count", "num_valence_electrons",
     "num_aromatic_rings", "num_aliphatic_rings", "num_saturated_rings",
     "num_aromatic_carbocycles", "num_aromatic_heterocycles",
     "num_aliphatic_carbocycles", "num_aliphatic_heterocycles",
     "num_saturated_carbocycles", "num_saturated_heterocycles", "ring_count",
     "num_amide_bonds", "fraction_csp3",
     "num_spiro_atoms", "num_bridgehead_atoms", "num_stereo_centers",
     "num_unspecified_stereo_centers" >>

ChargeKeys ==
  {"max_partial_charge", "min_partial_charge", "max_abs_partial_charge", "min_abs_partial_charge"}

EStateKeys ==
  {"max_estate_index", "min_estate_index", "max_abs_estate_index", "min_abs_estate_index"}

ScalarKeysB ==
  << "balaban_j", "bertz_ct", "ipc", "hall_kier_alpha",
     "kappa1", "kappa2", "kappa3",
     "chi0", "chi1", "chi0v", "chi1v" >>

\* the names dir(Fragments) yields with the prefix fr_ (a sample of them)
FragmentNames == {"fr_Al_OH", "fr_ketone"}

\* the keys of the initial props dictionary
InitialKeys == Range(ScalarKeysA) \cup ChargeKeys \cup EStateKeys \cup Range(ScalarKeysB) \cup {"qed"}

\* the steps of the outer try block, in order; the steps named in
\* IsolatedSteps have a try block of their own
Steps == ScalarKeysA \o <<"charges", "estate">> \o ScalarKeysB \o <<"qed", "fragments">>
IsolatedSteps == {"charges", "estate", "qed", "fragments"}

StepOf(k) ==
  IF k \in ChargeKeys THEN "charges"
  ELSE IF k \in EStateKeys THEN "estate"
  ELSE IF k \in FragmentNames THEN "fragments"
  ELSE k

\* get_property_descriptions: the keys of the catalog, in the order of the
\* dictionary (the texts of the descriptions are not modelled)
get_property_descriptions ==
  << "molecular_weight", "exact_mol_wt", "heavy_atom_mol_wt", "formula",
     "logp", "mol_mr", "tpsa", "labute_asa",
     "num_h_donors", "num_h_acceptors", "num_rotatable_bonds", "heavy_atom_count",
     "num_hetero_atoms", "no_count", "nhoh_count", "num_valence_electrons",
     "num_aromatic_rings", "num_aliphatic_rings", "num_saturated_rings",
     "num_aromatic_carbocycles", "num_aromatic_heterocycles",
     "num_aliphatic_carbocycles", "num_aliphatic_heterocycles",
     "num_saturated_carbocycles", "num_saturated_heterocycles", "ring_count",
     "num_amide_bonds", "fraction_csp3",
     "num_spiro_atoms", "num_bridgehead_atoms", "num_stereo_centers",
     "num_unspecified_stereo_centers",
     "balaban_j", "bertz_ct", "ipc", "hall_kier_alpha",
     "kappa1", "kappa2", "kappa3", "chi0", "chi1", "chi0v", "chi1v",
     "qed" >>

\* list(descriptions.keys())
get_available_properties == get_property_descriptions

\* the descriptors the rule-sets read
RuleKeys == {"molecular_weight", "logp", "num_h_donors", "num_h_acceptors",
             "num_rotatable_bonds", "tpsa", "heavy_atom_count", "mol_mr", "ring_count"}

(***************************************************************************)
(* The SMILES strings of the model.                                        *)
(***************************************************************************)
Baseline ==
  [k \in RuleKeys |->
     CASE k = "molecular_weight" -> 30000
       [] k = "logp" -> 200
       [] k = "num_h_donors" -> 1
       [] k = "num_h_acceptors" -> 3
       [] k = "num_rotatable_bonds" -> 3
       [] k = "tpsa" -> 6000
       [] k = "heavy_atom_count" -> 22
       [] k = "mol_mr" -> 8000
       [] k = "ring_count" -> 2]

\* values at and next to every bound of the five numeric rule-sets
BoundaryVals ==
  [k \in RuleKeys |->
     CASE k = "molecular_weight" ->
            {15999, 16000, 19999, 20000, 48000, 48001, 50000, 50001, 60000, 60001}
       [] k = "logp" -> {-201, -200, -41, -40, 500, 501, 560, 561, 588, 589}
       [] k = "num_h_donors" -> {5, 6}
       [] k = "num_h_acceptors" -> {10, 11}
       [] k = "num_rotatable_bonds" -> {10, 11, 14, 15}
       [] k = "tpsa" -> {13160, 13161, 14000, 14001, 15000, 15001}
       [] k = "heavy_atom_count" -> {19, 20, 70, 71}
       [] k = "mol_mr" -> {3999, 4000, 13000, 13001}
       [] k = "ring_count" -> {7, 8}]

AllBoundaryVals == UNION {BoundaryVals[k] : k \in RuleKeys}

DeviatedVals ==
  UNION { { [k \in RuleKeys |-> IF k \in D THEN f[k] ELSE Baseline[k]] :
              f \in {g \in [D -> AllBoundaryVals] : \A k \in D : g[k] \in BoundaryVals[k]} } :
          D \in {E \in SUBSET RuleKeys : Cardinality(E) <= MaxDeviations} }

ThrowPoints == (Range(Steps) \ {"fragments"}) \cup FragmentNames \cup {"FilterCatalog", "GetDescription"}

Molecule(text, parses, vals, throws, alerts) ==
  [text |-> text, parses |-> parses, vals |-> vals, throws |-> throws, alerts |-> alerts]

Aspirin == Molecule("CC(=O)OC1=CC=CC=C1C(=O)O", TRUE, Baseline, "none", 0)
InvalidSmiles == Molecule("invalid_smiles", FALSE, Baseline, "none", 0)
\* Chem.MolFromSmiles("") is a molecule without atoms
EmptySmiles == Molecule("", TRUE, [k \in RuleKeys |-> 0], "none", 0)

SmilesStrings ==
  { Molecule("CC(=O)OC1=CC=CC=C1C(=O)O", TRUE, v, "none", 0) : v \in DeviatedVals }
  \cup { Molecule("CC(=O)OC1=CC=CC=C1C(=O)O", TRUE, Baseline, t, 0) : t \in ThrowPoints }
  \cup { Molecule("O=C1C=CC(=O)C=C1", TRUE, Baseline, t, n) :
           t \in {"none", "FilterCatalog", "GetDescription"}, n \in 1..MaxAlerts }
  \cup { InvalidSmiles, EmptySmiles }

(***************************************************************************)
(* The toolkit.                                                            *)
(***************************************************************************)
\* Chem.MolFromSmiles(smiles) is not None
Parses(s) == s.parses

\* the value a descriptor function returns on the molecule
Compute(s, k) == IF k \in RuleKeys THEN s.vals[k] ELSE 1

\* the descriptor call raises
Throws(s, step) == s.throws = step

\* mol.GetAtoms() is not empty
HasAtoms(s) == s.text # ""

(***************************************************************************)
(* chatmol/properties.py: descriptor calculation.                          *)
(***************************************************************************)
BasicOrder == <<"molecular_weight", "logp", "num_h_donors", "num_h_acceptors", "formula">>

InitialValue(k) == IF k = "formula" THEN None ELSE NaN

\* the position of the first step whose exception leaves the try block
AbortAt(s, steps, isolated) ==
  IF \E i \in 1..Len(steps) : steps[i] \notin isolated /\ Throws(s, steps[i])
  THEN CHOOSE i \in 1..Len(steps) : steps[i] \notin isolated /\ Throws(s, steps[i])
  ELSE Len(steps) + 1

calculate_properties(s) ==
  IF ~rdkit_available \/ ~Parses(s)
  THEN [k \in Range(BasicOrder) |-> InitialValue(k)]
  ELSE [k \in Range(BasicOrder) |->
          IF IndexOf(BasicOrder, k) < AbortAt(s, BasicOrder, {})
          THEN Compute(s, k) ELSE InitialValue(k)]

\* the step of the outer try block is reached and its own call succeeds
StepDone(s, step, abort) ==
  /\ IndexOf(Steps, step) < abort
  /\ ~Throws(s, step)
  /\ (step \in {"charges", "estate"} => HasAtoms(s))

fragment_props(s) ==
  [n \in {f \in FragmentNames : ~Throws(s, f)} |-> Compute(s, n)]

calculate_all_properties(s) ==
  IF ~rdkit_available \/ ~Parses(s)
  THEN [k \in InitialKeys |-> InitialValue(k)]
  ELSE Only({
         Only({
                IF IndexOf(Steps, "fragments") < abort
                THEN Update(props, fragment_props(s))
                ELSE props
           : props \in {[k \in InitialKeys |->
                 IF StepDone(s, StepOf(k), abort) THEN Compute(s, k) ELSE InitialValue(k)]} })
         : abort \in {AbortAt(s, Steps, IsolatedSteps)} })

\* a variant that leaves out the properties that could not be computed
calculate_selected_properties_sparse(s, properties_list) ==
  Only({
    [p \in {q \in Range(properties_list) : q \in DOMAIN all_props /\ all_props[q] # NaN}
       |-> all_props[p]]
    : all_props \in {calculate_all_properties(s)} })

calculate_selected_properties(s, properties_list) ==
  Only({
    [p \in {q \in Range(properties_list) : q \in DOMAIN all_props} |-> all_props[p]]
    : all_props \in {calculate_all_properties(s)} })

(***************************************************************************)
(* chatmol/properties.py: the rule-sets.                                   *)
(***************************************************************************)
\* check_lipinski_rule with the weight bound made strict
check_lipinski_rule_strict(s) ==
  IF ~rdkit_available
  THEN [molecular_weight_ok |-> FALSE, logp_ok |-> FALSE, h_donors_ok |-> FALSE,
        h_acceptors_ok |-> FALSE, all_rules_passed |-> FALSE]
  ELSE Only({
         LET molecular_weight_ok == Lt(props["molecular_weight"], 50000)
             logp_ok == Le(props["logp"], 500)
             h_donors_ok == Le(props["num_h_donors"], 5)
             h_acceptors_ok == Le(props["num_h_acceptors"], 10)
         IN  [molecular_weight_ok |-> molecular_weight_ok, logp_ok |-> logp_ok,
              h_donors_ok |-> h_donors_ok, h_acceptors_ok |-> h_acceptors_ok,
              all_rules_passed |->
                molecular_weight_ok /\ logp_ok /\ h_donors_ok /\ h_acceptors_ok]
         : props \in {calculate_properties(s)} })

check_lipinski_rule(s) ==
  IF ~rdkit_available
  THEN [molecular_weight_ok |-> FALSE, logp_ok |-> FALSE, h_donors_ok |-> FALSE,
        h_acceptors_ok |-> FALSE, all_rules_passed |-> FALSE]
  ELSE Only({
         LET molecular_weight_ok == Le(props["molecular_weight"], 50000)
             logp_ok == Le(props["logp"], 500)
             h_donors_ok == Le(props["num_h_donors"], 5)
             h_acceptors_ok == Le(props["num_h_acceptors"], 10)
         IN  [molecular_weight_ok |-> molecular_weight_ok, logp_ok |-> logp_ok,
              h_donors_ok |-> h_donors_ok, h_acceptors_ok |-> h_acceptors_ok,
              all_rules_passed |->
                molecular_weight_ok /\ logp_ok /\ h_donors_ok /\ h_acceptors_ok]
         : props \in {calculate_properties(s)} })

\* a variant that evaluates the second bound only when the first one holds
check_veber_rules_short_circuit(s) ==
  IF ~rdkit_available
  THEN [rotatable_bonds_ok |-> FALSE, tpsa_ok |-> FALSE, all_rules_passed |-> FALSE]
  ELSE Only({
         LET rotatable_bonds_ok == Le(Get(props, "num_rotatable_bonds", Inf), 10)
             tpsa_ok == rotatable_bonds_ok /\ Le(Get(props, "tpsa", Inf), 14000)
         IN  [rotatable_bonds_ok |-> rotatable_bonds_ok, tpsa_ok |-> tpsa_ok,
              all_rules_passed |-> rotatable_bonds_ok /\ tpsa_ok]
         : props \in {calculate_selected_properties(s, <<"num_rotatable_bonds", "tpsa">>)} })

check_veber_rules(s) ==
  IF ~rdkit_available
  THEN [rotatable_bonds_ok |-> FALSE, tpsa_ok |-> FALSE, all_rules_passed |-> FALSE]
  ELSE Only({
         LET rotatable_bonds_ok == Le(Get(props, "num_rotatable_bonds", Inf), 10)
             tpsa_ok == Le(Get(props, "tpsa", Inf), 14000)
         IN  [rotatable_bonds_ok |-> rotatable_bonds_ok, tpsa_ok |-> tpsa_ok,
              all_rules_passed |-> rotatable_bonds_ok /\ tpsa_ok]
         : props \in {calculate_selected_properties(s, <<"num_rotatable_bonds", "tpsa">>)} })

check_ghose_filter(s) ==
  IF ~rdkit_available
  THEN [molecular_weight_ok |-> FALSE, logp_ok |-> FALSE, atom_count_ok |-> FALSE,
        molar_refractivity_ok |-> FALSE, all_rules_passed |-> FALSE]
  ELSE Only({
         LET mw == Get(props, "molecular_weight", 0)
             logp == Get(props, "logp", 0)
             atom_count == Get(props, "heavy_atom_count", 0)
             mol_mr == Get(props, "mol_mr", 0)
             molecular_weight_ok == Le(16000, mw) /\ Le(mw, 48000)
             logp_ok == Le(-40, logp) /\ Le(logp, 560)
             atom_count_ok == Le(20, atom_count) /\ Le(atom_count, 70)
             molar_refractivity_ok == Le(4000, mol_mr) /\ Le(mol_mr, 13000)
         IN  [molecular_weight_ok |-> molecular_weight_ok, logp_ok |-> logp_ok,
              atom_count_ok |-> atom_count_ok,
              molar_refractivity_ok |-> molar_refractivity_ok,
              all_rules_passed |->
                molecular_weight_ok /\ logp_ok /\ atom_count_ok /\ molar_refractivity_ok]
         : props \in {calculate_selected_properties(s,
              <<"molecular_weight", "logp", "heavy_atom_count", "mol_mr">>)} })

\* a variant whose LogP bound is strict
check_egan_filter_strict(s) ==
  IF ~rdkit_available
  THEN [logp_ok |-> FALSE, tpsa_ok |-> FALSE, all_rules_passed |-> FALSE]
  ELSE Only({
         LET logp == Get(props, "logp", Inf)
             tpsa == Get(props, "tpsa", Inf)
             logp_ok == Lt(logp, 588)
             tpsa_ok == Le(tpsa, 13160)
         IN  [logp_ok |-> logp_ok, tpsa_ok |-> tpsa_ok,
              all_rules_passed |-> logp_ok /\ tpsa_ok]
         : props \in {calculate_selected_properties(s, <<"logp", "tpsa">>)} })

check_egan_filter(s) ==
  IF ~rdkit_available
  THEN [logp_ok |-> FALSE, tpsa_ok |-> FALSE, all_rules_passed |-> FALSE]
  ELSE Only({
         LET logp == Get(props, "logp", Inf)
             tpsa == Get(props, "tpsa", Inf)
             logp_ok == Le(logp, 588)
             tpsa_ok == Le(tpsa, 13160)
         IN  [logp_ok |-> logp_ok, tpsa_ok |-> tpsa_ok,
              all_rules_passed |-> logp_ok /\ tpsa_ok]
         : props \in {calculate_selected_properties(s, <<"logp", "tpsa">>)} })

\* a variant whose rotatable-bond bound is inclusive
check_muegge_filter_inclusive(s) ==
  IF ~rdkit_available
  THEN [molecular_weight_ok |-> FALSE, logp_ok |-> FALSE, tpsa_ok |-> FALSE,
        ring_count_ok |-> FALSE, h_acceptors_ok |-> FALSE, h_donors_ok |-> FALSE,
        rotatable_bonds_ok |-> FALSE, all_rules_passed |-> FALSE]
  ELSE Only({
         LET mw == Get(props, "molecular_weight", 0)
             logp == Get(props, "logp", 0)
             tpsa == Get(props, "tpsa", Inf)
             ring_count == Get(props, "ring_count", Inf)
             h_acceptors == Get(props, "num_h_acceptors", Inf)
             h_donors == Get(props, "num_h_donors", Inf)
             rotatable_bonds == Get(props, "num_rotatable_bonds", Inf)
             molecular_weight_ok == Le(20000, mw) /\ Le(mw, 60000)
             logp_ok == Le(-200, logp) /\ Le(logp, 500)
             tpsa_ok == Le(tpsa, 15000)
             ring_count_ok == Le(ring_count, 7)
             h_acceptors_ok == Le(h_acceptors, 10)
             h_donors_ok == Le(h_donors, 5)
             rotatable_bonds_ok == Le(rotatable_bonds, 15)
         IN  [molecular_weight_ok |-> molecular_weight_ok, logp_ok |-> logp_ok,
              tpsa_ok |-> tpsa_ok, ring_count_ok |-> ring_count_ok,
              h_acceptors_ok |-> h_acceptors_ok, h_donors_ok |-> h_donors_ok,
              rotatable_bonds_ok |-> rotatable_bonds_ok,
              all_rules_passed |->
                /\ molecular_weight_ok /\ logp_ok /\ tpsa_ok /\ ring_count_ok
                /\ h_acceptors_ok /\ h_donors_ok /\ rotatable_bonds_ok]
         : props \in {calculate_selected_properties(s,
              <<"molecular_weight", "logp", "tpsa", "ring_count",
                "num_h_acceptors", "num_h_donors", "num_rotatable_bonds">>)} })

check_muegge_filter(s) ==
  IF ~rdkit_available
  THEN [molecular_weight_ok |-> FALSE, logp_ok |-> FALSE, tpsa_ok |-> FALSE,
        ring_count_ok |-> FALSE, h_acceptors_ok |-> FALSE, h_donors_ok |-> FALSE,
        rotatable_bonds_ok |-> FALSE, all_rules_passed |-> FALSE]
  ELSE Only({
         LET mw == Get(props, "molecular_weight", 0)
             logp == Get(props, "logp", 0)
             tpsa == Get(props, "tpsa", Inf)
             ring_count == Get(props, "ring_count", Inf)
             h_acceptors == Get(props, "num_h_acceptors", Inf)
             h_donors == Get(props, "num_h_donors", Inf)
             rotatable_bonds == Get(props, "num_rotatable_bonds", Inf)
             molecular_weight_ok == Le(20000, mw) /\ Le(mw, 60000)
             logp_ok == Le(-200, logp) /\ Le(logp, 500)
             tpsa_ok == Le(tpsa, 15000)
             ring_count_ok == Le(ring_count, 7)
             h_acceptors_ok == Le(h_acceptors, 10)
             h_donors_ok == Le(h_donors, 5)
             rotatable_bonds_ok == Lt(rotatable_bonds, 15)
         IN  [molecular_weight_ok |-> molecular_weight_ok, logp_ok |-> logp_ok,
              tpsa_ok |-> tpsa_ok, ring_count_ok |-> ring_count_ok,
              h_acceptors_ok |-> h_acceptors_ok, h_donors_ok |-> h_donors_ok,
              rotatable_bonds_ok |-> rotatable_bonds_ok,
              all_rules_passed |->
                /\ molecular_weight_ok /\ logp_ok /\ tpsa_ok /\ ring_count_ok
                /\ h_acceptors_ok /\ h_donors_ok /\ rotatable_bonds_ok]
         : props \in {calculate_selected_properties(s,
              <<"molecular_weight", "logp", "tpsa", "ring_count",
                "num_h_acceptors", "num_h_donors", "num_rotatable_bonds">>)} })

\* the dictionary built for the i-th catalog match
match_dict(i) == [description |-> i, smarts |-> None]

\* a variant that lists the alerts and leaves pains_free at its default
check_pains_filter_unflagged(s) ==
  IF \/ ~rdkit_available
     \/ ~Parses(s)
     \/ Throws(s, "FilterCatalog")
     \/ s.alerts = 0
  THEN [pains_free |-> TRUE, num_alerts |-> 0, matching_alerts |-> <<>>]
  ELSE [pains_free |-> TRUE, num_alerts |-> s.alerts,
        matching_alerts |->
          [i \in 1..(IF Throws(s, "GetDescription") THEN s.alerts - 1 ELSE s.alerts)
             |-> match_dict(i)]]

check_pains_filter(s) ==
  IF \/ ~rdkit_available
     \/ ~Parses(s)
     \/ Throws(s, "FilterCatalog")
     \/ s.alerts = 0
  THEN [pains_free |-> TRUE, num_alerts |-> 0, matching_alerts |-> <<>>]
  ELSE [pains_free |-> FALSE, num_alerts |-> s.alerts,
        matching_alerts |->
          [i \in 1..(IF Throws(s, "GetDescription") THEN s.alerts - 1 ELSE s.alerts)
             |-> match_dict(i)]]

\* a variant whose overall flag leaves the PAINS result out
check_all_druglikeness_filters_without_pains(s) ==
  IF ~rdkit_available
  THEN [lipinski |-> NoResult, veber |-> NoResult, ghose |-> NoResult, egan |-> NoResult,
        muegge |-> NoResult, pains |-> NoResult, all_filters_passed |-> FALSE]
  ELSE Only({
              [lipinski |-> result.lipinski, veber |-> result.veber,
               ghose |-> result.ghose, egan |-> result.egan,
               muegge |-> result.muegge, pains |-> result.pains,
               all_filters_passed |->
                 /\ result.lipinski.all_rules_passed /\ result.veber.all_rules_passed
                 /\ result.ghose.all_rules_passed /\ result.egan.all_rules_passed
                 /\ result.muegge.all_rules_passed]
         : result \in {[lipinski |-> check_lipinski_rule(s), veber |-> check_veber_rules(s),
             ghose |-> check_ghose_filter(s), egan |-> check_egan_filter(s),
             muegge |-> check_muegge_filter(s), pains |-> check_pains_filter(s)]} })

\* a variant that runs the Veber check in the place of the Egan check
check_all_druglikeness_filters_egan_as_veber(s) ==
  IF ~rdkit_available
  THEN [lipinski |-> NoResult, veber |-> NoResult, ghose |-> NoResult, egan |-> NoResult,
        muegge |-> NoResult, pains |-> NoResult, all_filters_passed |-> FALSE]
  ELSE Only({
              [lipinski |-> result.lipinski, veber |-> result.veber,
               ghose |-> result.ghose, egan |-> result.egan,
               muegge |-> result.muegge, pains |-> result.pains,
               all_filters_passed |->
                 /\ result.lipinski.all_rules_passed /\ result.veber.all_rules_passed
                 /\ result.ghose.all_rules_passed /\ result.egan.all_rules_passed
                 /\ result.muegge.all_rules_passed /\ result.pains.pains_free]
         : result \in {[lipinski |-> check_lipinski_rule(s), veber |-> check_veber_rules(s),
             ghose |-> check_ghose_filter(s), egan |-> check_veber_rules(s),
             muegge |-> check_muegge_filter(s), pains |-> check_pains_filter(s)]} })

check_all_druglikeness_filters(s) ==
  IF ~rdkit_available
  THEN [lipinski |-> NoResult, veber |-> NoResult, ghose |-> NoResult, egan |-> NoResult,
        muegge |-> NoResult, pains |-> NoResult, all_filters_passed |-> FALSE]
  ELSE Only({
              [lipinski |-> result.lipinski, veber |-> result.veber,
               ghose |-> result.ghose, egan |-> result.egan,
               muegge |-> result.muegge, pains |-> result.pains,
               all_filters_passed |->
                 /\ result.lipinski.all_rules_passed /\ result.veber.all_rules_passed
                 /\ result.ghose.all_rules_passed /\ result.egan.all_rules_passed
                 /\ result.muegge.all_rules_passed /\ result.pains.pains_free]
         : result \in {[lipinski |-> check_lipinski_rule(s), veber |-> check_veber_rules(s),
             ghose |-> check_ghose_filter(s), egan |-> check_egan_filter(s),
             muegge |-> check_muegge_filter(s), pains |-> check_pains_filter(s)]} })

get_druglikeness_filters_summary(s) ==
  IF ~rdkit_available
  THEN [lipinski_pass |-> FALSE, veber_pass |-> FALSE, ghose_pass |-> FALSE,
        egan_pass |-> FALSE, muegge_pass |-> FALSE, pains_free |-> FALSE,
        all_filters_passed |-> FALSE]
  ELSE Only({
         [lipinski_pass |-> all_results.lipinski.all_rules_passed,
          veber_pass |-> all_results.veber.all_rules_passed,
          ghose_pass |-> all_results.ghose.all_rules_passed,
          egan_pass |-> all_results.egan.all_rules_passed,
          muegge_pass |-> all_results.muegge.all_rules_passed,
          pains_free |-> all_results.pains.pains_free,
          all_filters_passed |-> all_results.all_filters_passed]
         : all_results \in {check_all_druglikeness_filters(s)} })

(***************************************************************************)
(* server.py: the single-molecule tool.                                    *)
(***************************************************************************)
RuleSetNames == <<"lipinski", "veber", "ghose", "egan", "muegge", "pains">>

\* str.lower() on the names of the model
Lower(name) ==
  CASE name = "PAINS" -> "pains"
    [] name = "ALL" -> "all"
    [] name = "Lipinski" -> "lipinski"
    [] OTHER -> name

\* the check function of a rule-set, applied to a SMILES string
RunCheck(name, s) ==
  CASE name = "lipinski" -> check_lipinski_rule(s)
    [] name = "veber" -> check_veber_rules(s)
    [] name = "ghose" -> check_ghose_filter(s)
    [] name = "egan" -> check_egan_filter(s)
    [] name = "muegge" -> check_muegge_filter(s)
    [] name = "pains" -> check_pains_filter(s)

\* a variant that adds the conjunction of the requested results, which is
\* true of an empty request
check_drug_likeness_with_vacuous_flag(s, rules_given, rules_arg) ==
  IF s.text = ""
  THEN [error |-> "No SMILES string provided"]
  ELSE LET rules == IF rules_given THEN rules_arg ELSE <<"lipinski">>
           lowered == {Lower(rules[i]) : i \in 1..Len(rules)}
       IN  IF "all" \in lowered
           THEN Only({
                  [k \in (DOMAIN full_results) \cup {"smiles", "basic_properties", "summary"} |->
                     CASE k = "smiles" -> s
                       [] k = "basic_properties" -> calculate_properties(s)
                       [] k = "summary" -> get_druglikeness_filters_summary(s)
                       [] OTHER -> full_results[k]]
                  : full_results \in {check_all_druglikeness_filters(s)} })
           ELSE [k \in (lowered \cap Range(RuleSetNames))
                          \cup {"smiles", "basic_properties", "all_filters_passed"} |->
                   CASE k = "smiles" -> s
                     [] k = "basic_properties" -> calculate_properties(s)
                     [] k = "all_filters_passed" ->
                          \A n \in lowered \cap Range(RuleSetNames) :
                            RunCheck(n, s)[IF n = "pains" THEN "pains_free"
                                           ELSE "all_rules_passed"]
                     [] OTHER -> RunCheck(k, s)]

\* rules_given is FALSE when the caller leaves rules at its default None
\* a variant that compares the rule names as written
check_drug_likeness_case_sensitive(s, rules_given, rules_arg) ==
  IF s.text = ""
  THEN [error |-> "No SMILES string provided"]
  ELSE LET rules == IF rules_given THEN rules_arg ELSE <<"lipinski">>
           lowered == {Lower(rules[i]) : i \in 1..Len(rules)}
       IN  IF "all" \in lowered
           THEN Only({
                  [k \in (DOMAIN full_results) \cup {"smiles", "basic_properties", "summary"} |->
                     CASE k = "smiles" -> s
                       [] k = "basic_properties" -> calculate_properties(s)
                       [] k = "summary" -> get_druglikeness_filters_summary(s)
                       [] OTHER -> full_results[k]]
                  : full_results \in {check_all_druglikeness_filters(s)} })
           ELSE [k \in (Range(rules) \cap Range(RuleSetNames)) \cup {"smiles", "basic_properties"} |->
                   CASE k = "smiles" -> s
                     [] k = "basic_properties" -> calculate_properties(s)
                     [] OTHER -> RunCheck(k, s)]

check_drug_likeness(s, rules_given, rules_arg) ==
  IF s.text = ""
  THEN [error |-> "No SMILES string provided"]
  ELSE LET rules == IF rules_given THEN rules_arg ELSE <<"lipinski">>
           lowered == {Lower(rules[i]) : i \in 1..Len(rules)}
       IN  IF "all" \in lowered
           THEN Only({
                  [k \in (DOMAIN full_results) \cup {"smiles", "basic_properties", "summary"} |->
                     CASE k = "smiles" -> s
                       [] k = "basic_properties" -> calculate_properties(s)
                       [] k = "summary" -> get_druglikeness_filters_summary(s)
                       [] OTHER -> full_results[k]]
                  : full_results \in {check_all_druglikeness_filters(s)} })
           ELSE [k \in (lowered \cap Range(RuleSetNames)) \cup {"smiles", "basic_properties"} |->
                   CASE k = "smiles" -> s
                     [] k = "basic_properties" -> calculate_properties(s)
                     [] OTHER -> RunCheck(k, s)]

(***************************************************************************)
(* chatmol/io.py: the batch entry point.  A CSV text is its header line    *)
(* and its data lines; a cell is a number, and the cells of a structure    *)
(* column are codes of SMILES strings.                                     *)
(***************************************************************************)
PyTrue == 1
PyFalse == 0
PyBool(b) == IF b THEN PyTrue ELSE PyFalse

\* the SMILES string a cell holds; a cell that is no string (a number,
\* None) makes Chem.MolFromSmiles raise, which every caller catches like
\* a parse failure
CellSmiles(c) ==
  CASE c = 1 -> Aspirin
    [] c = 2 -> InvalidSmiles
    [] c = 3 -> Molecule("O=C1C=CC(=O)C=C1", TRUE, Baseline, "none", 1)
    [] OTHER -> Molecule("not a string", FALSE, Baseline, "none", 0)

StructureCodes == {1, 2, 3}

\* DRUGLIKENESS_FILTERS[name]["column_name"]
FilterColumn(name) == IF name = "pains" THEN "pains_free" ELSE name \o "_pass"

\* DRUGLIKENESS_FILTERS[name]["result_key"]
FilterResultKey(name) == IF name = "pains" THEN "pains_free" ELSE "all_rules_passed"

\* pd.read_csv: the header names the columns, every data line is a row
read_csv(content) ==
  [columns |-> content.header,
   rows |-> [i \in 1..Len(content.rows) |->
               [c \in Range(content.header) |-> content.rows[i][IndexOf(content.header, c)]]]]

\* DataFrame.to_csv: None and NaN are both written as an empty field
CsvField(v) == IF v = NaN THEN None ELSE v

to_csv(result_df) ==
  Only({
    [header |-> df.columns,
     rows |-> [i \in 1..Len(df.rows) |->
                 [j \in 1..Len(df.columns) |-> CsvField(df.rows[i][df.columns[j]])]]]
    : df \in {result_df} })

\* result_df[name] = None
SetColumn(result_df, name) ==
  Only({
    [columns |-> IF name \in Range(df.columns) THEN df.columns ELSE Append(df.columns, name),
     rows |-> [i \in 1..Len(df.rows) |-> Update(df.rows[i], name :> None)]]
    : df \in {result_df} })

\* result_df.at[idx, name] = v
SetAt(df, idx, name, v) == [df EXCEPT !.rows[idx] = Update(@, name :> v)]

\* a variant that matches the names without regard to case
RECURSIVE AppliedFilters_ignoring_case(_)
AppliedFilters_ignoring_case(filters) ==
  IF filters = <<>> THEN <<>>
  ELSE IF Lower(Head(filters)) \in Range(RuleSetNames)
       THEN <<Lower(Head(filters))>> \o AppliedFilters_ignoring_case(Tail(filters))
       ELSE AppliedFilters_ignoring_case(Tail(filters))

\* the recognised names of a filter list, in request order
RECURSIVE AppliedFilters(_)
AppliedFilters(filters) ==
  IF filters = <<>> THEN <<>>
  ELSE IF Head(filters) \in Range(RuleSetNames)
       THEN <<Head(filters)>> \o AppliedFilters(Tail(filters))
       ELSE AppliedFilters(Tail(filters))

\* the loop that initialises one column per applied filter
RECURSIVE InitFilterColumns(_, _)
InitFilterColumns(df, applied) ==
  IF applied = <<>> THEN df
  ELSE InitFilterColumns(SetColumn(df, FilterColumn(Head(applied))), Tail(applied))

\* the column a requested property is written to
PropertyColumn(df, smiles_column, prop) ==
  IF prop \in Range(df.columns) /\ prop # smiles_column
  THEN prop \o "_calculated"
  ELSE prop

\* the loop that initialises one column per requested property
RECURSIVE InitPropertyColumns(_, _, _, _)
InitPropertyColumns(result_df, df, smiles_column, properties) ==
  IF properties = <<>> THEN result_df
  ELSE InitPropertyColumns(
         SetColumn(result_df, PropertyColumn(df, smiles_column, Head(properties))),
         df, smiles_column, Tail(properties))

\* the keys of the property_columns dictionary, in insertion order
RECURSIVE DictKeys(_, _)
DictKeys(properties, seen) ==
  IF properties = <<>> THEN <<>>
  ELSE IF Head(properties) \in seen
       THEN DictKeys(Tail(properties), seen)
       ELSE <<Head(properties)>> \o DictKeys(Tail(properties), seen \cup {Head(properties)})

\* one row: the writes of the computed properties
RECURSIVE WriteProperties(_, _, _, _, _, _)
WriteProperties(df0, df, smiles_column, idx, props0, keys) ==
  IF keys = <<>> THEN df0
  ELSE Only({
         WriteProperties(
           IF Head(keys) \in DOMAIN props
           THEN SetAt(df0, idx, PropertyColumn(df, smiles_column, Head(keys)), props[Head(keys)])
           ELSE df0,
           df, smiles_column, idx, props, Tail(keys))
         : props \in {props0} })

\* one row: the writes of the filter results
RECURSIVE WriteFilters(_, _, _, _)
WriteFilters(result_df, idx, s, applied) ==
  IF applied = <<>> THEN result_df
  ELSE WriteFilters(
         SetAt(result_df, idx, FilterColumn(Head(applied)),
               PyBool(RunCheck(Head(applied), s)[FilterResultKey(Head(applied))])),
         idx, s, Tail(applied))

\* a variant whose loop ends at the first row that does not parse
RECURSIVE ProcessRows_stopping(_, _, _, _, _, _)
ProcessRows_stopping(df0, df, smiles_column, properties, applied, idx) ==
  Only({
    IF idx > Len(result_df.rows) THEN result_df
    ELSE LET s == CellSmiles(result_df.rows[idx][smiles_column])
             with_props ==
               IF properties # <<>>
               THEN WriteProperties(result_df, df, smiles_column, idx,
                                    calculate_properties(s), DictKeys(properties, {}))
               ELSE result_df
         IN  IF ~Parses(s) THEN result_df
             ELSE ProcessRows_stopping(WriteFilters(with_props, idx, s, applied),
                                       df, smiles_column, properties, applied, idx + 1)
    : result_df \in {df0} })

\* a variant that keeps the structure string of the first row for every row
RECURSIVE ProcessRows_keeping_first_structure(_, _, _, _, _, _)
ProcessRows_keeping_first_structure(df0, df, smiles_column, properties, applied, idx) ==
  Only({
    IF idx > Len(result_df.rows) THEN result_df
    ELSE LET s == CellSmiles(result_df.rows[1][smiles_column])
             with_props ==
               IF properties # <<>>
               THEN WriteProperties(result_df, df, smiles_column, idx,
                                    calculate_properties(s), DictKeys(properties, {}))
               ELSE result_df
         IN  ProcessRows_keeping_first_structure(WriteFilters(with_props, idx, s, applied),
                                                 df, smiles_column, properties, applied, idx + 1)
    : result_df \in {df0} })

\* the loop over the rows; row idx is read before it is written
RECURSIVE ProcessRows(_, _, _, _, _, _)
ProcessRows(df0, df, smiles_column, properties, applied, idx) ==
  Only({
    IF idx > Len(result_df.rows) THEN result_df
    ELSE LET s == CellSmiles(result_df.rows[idx][smiles_column])
             with_props ==
               IF properties # <<>>
               THEN WriteProperties(result_df, df, smiles_column, idx,
                                    calculate_properties(s), DictKeys(properties, {}))
               ELSE result_df
         IN  ProcessRows(WriteFilters(with_props, idx, s, applied),
                         df, smiles_column, properties, applied, idx + 1)
    : result_df \in {df0} })

\* a variant that falls back to the last column when the named structure
\* column is not in the table
process_csv_data_falling_back(csv_content, a) ==
  LET properties == IF a.properties_given THEN a.properties ELSE <<"molecular_weight">>
      filters0 == IF a.filters_given THEN a.filters ELSE <<>>
  IN  IF csv_content.header = <<>>
      THEN [error |-> "No CSV data provided"]
      ELSE Only({
             LET smiles_column == IF a.column_given /\ a.column # ""
                                  THEN (IF a.column \in Range(df.columns)
                                        THEN a.column ELSE df.columns[Len(df.columns)])
                                  ELSE df.columns[Len(df.columns)]
             IN  IF smiles_column \notin Range(df.columns)
                 THEN [error |-> "Specified SMILES column not found in CSV data"]
                 ELSE LET filters == IF "all" \in Range(filters0) THEN RuleSetNames ELSE filters0
                          applied_filters == AppliedFilters(filters)
                      IN  Only({
                                 [result |-> to_csv(result_df),
                                  message |-> Len(result_df.rows),
                                  smiles_column |-> smiles_column,
                                  properties_added |-> properties,
                                  filters_applied |-> applied_filters]
                            : result_df \in {ProcessRows(
                                 InitPropertyColumns(InitFilterColumns(df, applied_filters),
                                                     df, smiles_column, properties),
                                 df, smiles_column, properties, applied_filters, 1)} })
             : df \in {read_csv(csv_content)} })

\* a holds the optional arguments; one the caller leaves out has given = FALSE
process_csv_data(csv_content, a) ==
  LET properties == IF a.properties_given THEN a.properties ELSE <<"molecular_weight">>
      filters0 == IF a.filters_given THEN a.filters ELSE <<>>
  IN  IF csv_content.header = <<>>
      THEN [error |-> "No CSV data provided"]
      ELSE Only({
             LET smiles_column == IF a.column_given /\ a.column # ""
                                  THEN a.column ELSE df.columns[Len(df.columns)]
             IN  IF smiles_column \notin Range(df.columns)
                 THEN [error |-> "Specified SMILES column not found in CSV data"]
                 ELSE LET filters == IF "all" \in Range(filters0) THEN RuleSetNames ELSE filters0
                          applied_filters == AppliedFilters(filters)
                      IN  Only({
                                 [result |-> to_csv(result_df),
                                  message |-> Len(result_df.rows),
                                  smiles_column |-> smiles_column,
                                  properties_added |-> properties,
                                  filters_applied |-> applied_filters]
                            : result_df \in {ProcessRows(
                                 InitPropertyColumns(InitFilterColumns(df, applied_filters),
                                                     df, smiles_column, properties),
                                 df, smiles_column, properties, applied_filters, 1)} })
             : df \in {read_csv(csv_content)} })

(***************************************************************************)
(* mol-weight.py: the standalone molecular-weight server.                  *)
(***************************************************************************)
\* calculate_properties of mol-weight.py: without the toolkit the first call
\* raises NameError, which the except clause swallows
mol_weight_calculate_properties(s) ==
  IF ~rdkit_available \/ ~Parses(s)
  THEN [k \in Range(BasicOrder) |-> InitialValue(k)]
  ELSE [k \in Range(BasicOrder) |->
          IF IndexOf(BasicOrder, k) < AbortAt(s, BasicOrder, {})
          THEN Compute(s, k) ELSE InitialValue(k)]

\* result_df.loc[idx, name] = v: a column that does not exist yet is created
\* with NaN in every other row
LocSet(result_df, idx, name, v) ==
  Only({
    [columns |-> IF name \in Range(df.columns) THEN df.columns ELSE Append(df.columns, name),
     rows |-> [i \in 1..Len(df.rows) |->
                 IF i = idx THEN Update(df.rows[i], name :> v)
                 ELSE IF name \in Range(df.columns) THEN df.rows[i]
                 ELSE Update(df.rows[i], name :> NaN)]]
    : df \in {result_df} })

\* one row: the loop over the requested properties; the column name is
\* chosen against the columns result_df has at that moment
RECURSIVE AddRowProperties(_, _, _, _, _)
AddRowProperties(result_df, smiles_column, idx, props0, keys) ==
  IF keys = <<>> THEN result_df
  ELSE Only({
         AddRowProperties(
           IF Head(keys) \in DOMAIN props
           THEN LocSet(df, idx,
                       IF Head(keys) \in Range(df.columns) /\ Head(keys) # smiles_column
                       THEN Head(keys) \o "_calculated" ELSE Head(keys),
                       props[Head(keys)])
           ELSE df,
           smiles_column, idx, props, Tail(keys))
         : df \in {result_df}, props \in {props0} })

\* the loop over the structure strings, which are read from the column as
\* it is when the loop starts
RECURSIVE AddRows(_, _, _, _, _)
AddRows(result_df, smiles_column, properties, structures, idx) ==
  IF idx > Len(structures) THEN result_df
  ELSE AddRows(AddRowProperties(result_df, smiles_column, idx,
                                mol_weight_calculate_properties(CellSmiles(structures[idx])),
                                properties),
               smiles_column, properties, structures, idx + 1)

add_molecular_weight(csv_content, a) ==
  LET properties == IF a.properties_given THEN a.properties ELSE <<"molecular_weight">>
  IN  IF csv_content.header = <<>>
      THEN [error |-> "No CSV data provided"]
      ELSE Only({
             LET smiles_column == IF a.column_given /\ a.column # ""
                                  THEN a.column ELSE df.columns[Len(df.columns)]
             IN  IF smiles_column \notin Range(df.columns)
                 THEN [error |-> "Specified SMILES column not found in CSV data"]
                 ELSE Only({
                        [result |-> to_csv(result_df),
                         message |-> Len(result_df.rows),
                         smiles_column |-> smiles_column,
                         properties_added |-> properties]
                        : result_df \in {AddRows(df, smiles_column, properties,
                                                 [i \in 1..Len(df.rows) |->
                                                    df.rows[i][smiles_column]], 1)} })
             : df \in {read_csv(csv_content)} })

(***************************************************************************)
(* The inputs of the model.                                                *)
(***************************************************************************)
Quinone == Molecule("O=C1C=CC(=O)C=C1", TRUE, Baseline, "none", 1)
Heavy ==
  Molecule("CCCCCCCCCCCCCCCCCCCCCCCCCCCCCCCCCCCC(=O)O", TRUE,
           [Baseline EXCEPT !["molecular_weight"] = 50001, !["num_rotatable_bonds"] = 15],
           "none", 0)

\* the strings given to the entry points that dispatch on names
DispatchSmiles == {Aspirin, InvalidSmiles, EmptySmiles, Quinone, Heavy}

RuleNameSamples ==
  {"lipinski", "veber", "ghose", "egan", "muegge", "pains", "all", "ALL", "PAINS", "bogus"}

RECURSIVE SeqsUpTo(_, _)
SeqsUpTo(S, n) ==
  IF n = 0 THEN {<<>>}
  ELSE LET shorter == SeqsUpTo(S, n - 1)
       IN  shorter \cup {Append(q, x) : q \in shorter, x \in S}

RuleLists == SeqsUpTo(RuleNameSamples, MaxRules)

EmptyCsv == [header |-> <<>>, rows |-> <<>>]

Headers ==
  { <<"compound_id", "smiles">>,
    <<"compound_id", "smiles", "molecular_weight">>,
    <<"smiles", "molecular_weight", "molecular_weight_calculated">>,
    <<"smiles", "lipinski_pass">> }

\* the table with the given header whose structure column holds the codes f
CsvTable(header, f) ==
  [header |-> header,
   rows |-> [i \in DOMAIN f |->
               [j \in 1..Len(header) |->
                  IF header[j] = "smiles" THEN f[i] ELSE 100 + 10 * i + j]]]

CsvTables ==
  { CsvTable(h, f) : h \in Headers,
                     f \in UNION {[1..n -> StructureCodes] : n \in 0..MaxRows} }

ColumnArgs == {"smiles", "SMILES"}

PropertiesArgs ==
  { <<>>, <<"molecular_weight">>, <<"formula", "tpsa">>,
    <<"molecular_weight", "logp", "molecular_weight">>, <<"smiles", "logp">> }

FiltersArgs ==
  { <<>>, <<"all">>, <<"lipinski">>, <<"pains", "veber">>, <<"ghose", "egan", "muegge">>,
    <<"Lipinski", "veber", "bogus">>, <<"veber", "all">>, <<"pains", "lipinski", "pains">> }

SelectedArgs ==
  { <<"molecular_weight">>, <<"tpsa", "fr_ketone", "bogus">>, <<>> }

\* an optional argument the caller leaves out has given = FALSE
NoArgs ==
  [rules_given |-> FALSE, rules |-> <<>>,
   column_given |-> FALSE, column |-> "",
   properties_given |-> FALSE, properties |-> <<>>,
   filters_given |-> FALSE, filters |-> <<>>]

\* the optional arguments of a batch call; a column argument that names no
\* column or is empty is combined with the other two arguments left out
CsvArgs ==
  { x \in { [NoArgs EXCEPT !.column_given = cg, !.column = c,
                           !.properties_given = pg, !.properties = p,
                           !.filters_given = fg, !.filters = f] :
              cg \in BOOLEAN, c \in ColumnArgs \cup {""},
              pg \in BOOLEAN, p \in PropertiesArgs,
              fg \in BOOLEAN, f \in FiltersArgs } :
      (x.column_given /\ x.column # "smiles") => (~x.properties_given /\ ~x.filters_given) }

MoleculeFunctions ==
  { "calculate_properties", "calculate_all_properties",
    "check_lipinski_rule", "check_veber_rules", "check_ghose_filter",
    "check_egan_filter", "check_muegge_filter", "check_pains_filter",
    "check_all_druglikeness_filters", "get_druglikeness_filters_summary" }

\* server.py: the properties tool for one SMILES string
calculate_molecular_properties(s, properties_given, properties) ==
  IF s.text = ""
  THEN [error |-> "No SMILES string provided"]
  ELSE IF ~properties_given
       THEN calculate_properties(s)
       ELSE IF Len(properties) = 1 /\ Lower(properties[1]) = "all"
            THEN calculate_all_properties(s)
            ELSE calculate_selected_properties(s, properties)

Request(f, s, c, a) == [op |-> f, smiles |-> s, csv |-> c, args |-> a]

\* the calls of the model: a function of the program and its arguments
Requests ==
  { Request(f, s, EmptyCsv, NoArgs) : f \in MoleculeFunctions, s \in SmilesStrings }
  \cup { Request("calculate_selected_properties", s, EmptyCsv,
                 [NoArgs EXCEPT !.properties_given = TRUE, !.properties = l]) :
           s \in SmilesStrings, l \in SelectedArgs }
  \cup { Request("calculate_molecular_properties", s, EmptyCsv, NoArgs) : s \in DispatchSmiles }
  \cup { Request("calculate_molecular_properties", s, EmptyCsv,
                 [NoArgs EXCEPT !.properties_given = TRUE, !.properties = l]) :
           s \in DispatchSmiles, l \in SelectedArgs \cup {<<"all">>, <<"ALL">>} }
  \cup { Request("check_drug_likeness", s, EmptyCsv, NoArgs) : s \in DispatchSmiles }
  \cup { Request("check_drug_likeness", s, EmptyCsv,
                 [NoArgs EXCEPT !.rules_given = TRUE, !.rules = r]) :
           s \in DispatchSmiles, r \in RuleLists }
  \cup { Request("add_molecular_weight", EmptySmiles, c, a) :
           c \in CsvTables \cup {EmptyCsv},
           a \in {x \in CsvArgs : /\ (~x.column_given => x.column = "")
                                 /\ (~x.properties_given => x.properties = <<>>)
                                 /\ ~x.filters_given /\ x.filters = <<>>} }
  \cup { Request("process_csv_data", EmptySmiles, c, a) :
           c \in CsvTables \cup {EmptyCsv},
           a \in {x \in CsvArgs : /\ (~x.column_given => x.column = "")
                                 /\ (~x.properties_given => x.properties = <<>>)
                                 /\ (~x.filters_given => x.filters = <<>>)} }

(***************************************************************************)
(* The state machine.  The functions keep no state between calls, so a     *)
(* behaviour is one call: Init fixes the environment (whether the toolkit  *)
(* could be imported), the function called and its arguments; the action   *)
(* of that function runs it to its return value.                           *)
(***************************************************************************)
Init ==
  /\ rdkit_available \in BOOLEAN
  /\ \E r \in Requests :
       /\ op = r.op
       /\ smiles = r.smiles
       /\ csv = r.csv
       /\ args = r.args
  /\ pc = "call"
  /\ ret = NoResult

Return(name, value) ==
  /\ pc = "call"
  /\ op = name
  /\ pc' = "done"
  /\ ret' = value
  /\ UNCHANGED <<rdkit_available, op, smiles, csv, args>>

CallCalculateProperties ==
  Return("calculate_properties", calculate_properties(smiles))

CallCalculateAllProperties ==
  Return("calculate_all_properties", calculate_all_properties(smiles))

CallCalculateSelectedProperties ==
  Return("calculate_selected_properties",
         calculate_selected_properties(smiles, args.properties))

CallCheckLipinskiRule ==
  Return("check_lipinski_rule", check_lipinski_rule(smiles))

CallCheckVeberRules ==
  Return("check_veber_rules", check_veber_rules(smiles))

CallCheckGhoseFilter ==
  Return("check_ghose_filter", check_ghose_filter(smiles))

CallCheckEganFilter ==
  Return("check_egan_filter", check_egan_filter(smiles))

CallCheckMueggeFilter ==
  Return("check_muegge_filter", check_muegge_filter(smiles))

CallCheckPainsFilter ==
  Return("check_pains_filter", check_pains_filter(smiles))

CallCheckAllDruglikenessFilters ==
  Return("check_all_druglikeness_filters", check_all_druglikeness_filters(smiles))

CallGetDruglikenessFiltersSummary ==
  Return("get_druglikeness_filters_summary", get_druglikeness_filters_summary(smiles))

CallCalculateMolecularProperties ==
  Return("calculate_molecular_properties",
         calculate_molecular_properties(smiles, args.properties_given, args.properties))

CallCheckDrugLikeness ==
  Return("check_drug_likeness", check_drug_likeness(smiles, args.rules_given, args.rules))

CallAddMolecularWeight ==
  Return("add_molecular_weight", add_molecular_weight(csv, args))

CallProcessCsvData ==
  Return("process_csv_data", process_csv_data(csv, args))

\* the caller repeats the call
CallAgain ==
  /\ pc = "done"
  /\ pc' = "call"
  /\ ret' = NoResult
  /\ UNCHANGED <<rdkit_available, op, smiles, csv, args>>

Next ==
  \/ CallCalculateProperties
  \/ CallCalculateAllProperties
  \/ CallCalculateSelectedProperties
  \/ CallCheckLipinskiRule
  \/ CallCheckVeberRules
  \/ CallCheckGhoseFilter
  \/ CallCheckEganFilter
  \/ CallCheckMueggeFilter
  \/ CallCheckPainsFilter
  \/ CallCheckAllDruglikenessFilters
  \/ CallGetDruglikenessFiltersSummary
  \/ CallCalculateMolecularProperties
  \/ CallCheckDrugLikeness
  \/ CallAddMolecularWeight
  \/ CallProcessCsvData
  \/ CallAgain

Spec == Init /\ [][Next]_vars

(***************************************************************************)
(* Properties.                                                             *)
(***************************************************************************)
Called(name) == op = name /\ pc = "done"

\* C1: for every SMILES string the parser rejects, the record returned by
\* the aggregator has no descriptor key: its keys are among smiles and error
\* (molecular_weight and formula are absent, not present with NaN or None).
C1_UnparseableRecordHasNoDescriptorKeys ==
  (Called("calculate_all_properties") /\ rdkit_available /\ ~Parses(smiles))
    => DOMAIN ret \subseteq {"smiles", "error"}

\* the compute call that yields key k raises on the molecule
ComputeThrows(s, k) == IF k \in FragmentNames THEN Throws(s, k) ELSE Throws(s, StepOf(k))

\* C2: when the compute call of one descriptor throws during the aggregation
\* of a parseable molecule, every other descriptor, before or after it in the
\* computation order and the fr_ counters included, still has its computed
\* value in the returned record.
C2_DescriptorFailureIsIsolated ==
  (Called("calculate_all_properties") /\ rdkit_available /\ Parses(smiles) /\ HasAtoms(smiles))
    => \A k \in InitialKeys \cup FragmentNames :
         ~ComputeThrows(smiles, k) => (k \in DOMAIN ret /\ ret[k] = Compute(smiles, k))

\* the four values check_lipinski_rule reads have been computed
LipinskiValuesPresent ==
  /\ rdkit_available
  /\ Parses(smiles)
  /\ \A k \in {"molecular_weight", "logp", "num_h_donors", "num_h_acceptors"} :
       calculate_properties(smiles)[k] # NaN

\* C3: check_lipinski_rule on a molecule whose four values are present:
\* molecular_weight_ok = (MW <= 500), logp_ok = (LogP <= 5), h_donors_ok =
\* (H-donors <= 5), h_acceptors_ok = (H-acceptors <= 10), and
\* all_rules_passed is true iff the four flags are true.
C3_LipinskiFlagsAreTheBounds ==
  (Called("check_lipinski_rule") /\ LipinskiValuesPresent)
    => /\ ret.molecular_weight_ok = (smiles.vals["molecular_weight"] <= 50000)
       /\ ret.logp_ok = (smiles.vals["logp"] <= 500)
       /\ ret.h_donors_ok = (smiles.vals["num_h_donors"] <= 5)
       /\ ret.h_acceptors_ok = (smiles.vals["num_h_acceptors"] <= 10)
       /\ ret.all_rules_passed =
            (ret.molecular_weight_ok /\ ret.logp_ok /\ ret.h_donors_ok /\ ret.h_acceptors_ok)

\* a molecule exactly at the weight bound passes every Lipinski rule
C3_Witness ==
  /\ Called("check_lipinski_rule")
  /\ LipinskiValuesPresent
  /\ smiles.vals["molecular_weight"] = 50000
  /\ ret.molecular_weight_ok
  /\ ret.all_rules_passed

NumericChecks ==
  {"check_lipinski_rule", "check_veber_rules", "check_ghose_filter",
   "check_egan_filter", "check_muegge_filter"}

\* the descriptor each flag of a numeric rule-set is computed from
FlagDependsOn(fn) ==
  CASE fn = "check_lipinski_rule" ->
         [molecular_weight_ok |-> "molecular_weight", logp_ok |-> "logp",
          h_donors_ok |-> "num_h_donors", h_acceptors_ok |-> "num_h_acceptors"]
    [] fn = "check_veber_rules" ->
         [rotatable_bonds_ok |-> "num_rotatable_bonds", tpsa_ok |-> "tpsa"]
    [] fn = "check_ghose_filter" ->
         [molecular_weight_ok |-> "molecular_weight", logp_ok |-> "logp",
          atom_count_ok |-> "heavy_atom_count", molar_refractivity_ok |-> "mol_mr"]
    [] fn = "check_egan_filter" ->
         [logp_ok |-> "logp", tpsa_ok |-> "tpsa"]
    [] fn = "check_muegge_filter" ->
         [molecular_weight_ok |-> "molecular_weight", logp_ok |-> "logp",
          tpsa_ok |-> "tpsa", ring_count_ok |-> "ring_count",
          h_acceptors_ok |-> "num_h_acceptors", h_donors_ok |-> "num_h_donors",
          rotatable_bonds_ok |-> "num_rotatable_bonds"]

\* the descriptor k is not available to the check fn on the SMILES string s:
\* no toolkit, no molecule, or a value left at NaN by the descriptor function
\* the check calls
Unavailable(fn, s, k) ==
  \/ ~rdkit_available
  \/ ~Parses(s)
  \/ (IF fn = "check_lipinski_rule"
      THEN calculate_properties(s) ELSE calculate_all_properties(s))[k] = NaN

\* C4: in each of the five numeric rule-sets, a flag whose descriptor is
\* unavailable (unparseable SMILES, a value left at NaN, the toolkit not
\* importable) is false and so is all_rules_passed; the check returns its
\* record of flags.
C4_UnavailableDescriptorFailsClosed ==
  \A fn \in NumericChecks :
    Called(fn) =>
      /\ DOMAIN ret = (DOMAIN FlagDependsOn(fn)) \cup {"all_rules_passed"}
      /\ \A flag \in DOMAIN FlagDependsOn(fn) :
           Unavailable(fn, smiles, FlagDependsOn(fn)[flag])
             => (ret[flag] = FALSE /\ ret.all_rules_passed = FALSE)

\* the Ghose check of a molecule whose LogP computation raised: the weight
\* flag, computed before, passes; the LogP flag and the aggregate fail
C4_Witness ==
  /\ Called("check_ghose_filter")
  /\ rdkit_available
  /\ Parses(smiles)
  /\ Throws(smiles, "logp")
  /\ ret.molecular_weight_ok
  /\ ~ret.logp_ok
  /\ ~ret.all_rules_passed

\* every descriptor the check fn reads has been computed
ValuesPresent(fn, s) ==
  \A flag \in DOMAIN FlagDependsOn(fn) : ~Unavailable(fn, s, FlagDependsOn(fn)[flag])

\* C5: check_muegge_filter: the seven flags are 200 <= MW <= 600,
\* -2 <= LogP <= 5, TPSA <= 150, ring count <= 7, H-acceptors <= 10,
\* H-donors <= 5 and rotatable bonds < 15 (strict: 15 fails, 14 passes), and
\* all_rules_passed is their conjunction; every bound of veber, ghose and egan
\* is inclusive (10 rotatable bonds pass veber).
C5_MueggeBoundsAndInclusiveOthers ==
  LET v == smiles.vals
  IN  /\ (Called("check_muegge_filter") /\ ValuesPresent("check_muegge_filter", smiles))
           => /\ ret.molecular_weight_ok =
                   (20000 <= v["molecular_weight"] /\ v["molecular_weight"] <= 60000)
              /\ ret.logp_ok = (-200 <= v["logp"] /\ v["logp"] <= 500)
              /\ ret.tpsa_ok = (v["tpsa"] <= 15000)
              /\ ret.ring_count_ok = (v["ring_count"] <= 7)
              /\ ret.h_acceptors_ok = (v["num_h_acceptors"] <= 10)
              /\ ret.h_donors_ok = (v["num_h_donors"] <= 5)
              /\ ret.rotatable_bonds_ok = (v["num_rotatable_bonds"] < 15)
              /\ ret.all_rules_passed =
                   (/\ ret.molecular_weight_ok /\ ret.logp_ok /\ ret.tpsa_ok
                    /\ ret.ring_count_ok /\ ret.h_acceptors_ok /\ ret.h_donors_ok
                    /\ ret.rotatable_bonds_ok)
      /\ (Called("check_veber_rules") /\ ValuesPresent("check_veber_rules", smiles))
           => /\ ret.rotatable_bonds_ok = (v["num_rotatable_bonds"] <= 10)
              /\ ret.tpsa_ok = (v["tpsa"] <= 14000)
      /\ (Called("check_ghose_filter") /\ ValuesPresent("check_ghose_filter", smiles))
           => /\ ret.molecular_weight_ok =
                   (16000 <= v["molecular_weight"] /\ v["molecular_weight"] <= 48000)
              /\ ret.logp_ok = (-40 <= v["logp"] /\ v["logp"] <= 560)
              /\ ret.atom_count_ok = (20 <= v["heavy_atom_count"] /\ v["heavy_atom_count"] <= 70)
              /\ ret.molar_refractivity_ok = (4000 <= v["mol_mr"] /\ v["mol_mr"] <= 13000)
      /\ (Called("check_egan_filter") /\ ValuesPresent("check_egan_filter", smiles))
           => /\ ret.logp_ok = (v["logp"] <= 588)
              /\ ret.tpsa_ok = (v["tpsa"] <= 13160)

\* a molecule with exactly 15 rotatable bonds fails the Muegge rotatable-bond
\* flag only
C5_Witness ==
  /\ Called("check_muegge_filter")
  /\ ValuesPresent("check_muegge_filter", smiles)
  /\ smiles.vals["num_rotatable_bonds"] = 15
  /\ ~ret.rotatable_bonds_ok
  /\ ret.molecular_weight_ok /\ ret.logp_ok /\ ret.tpsa_ok /\ ret.ring_count_ok
  /\ ret.h_acceptors_ok /\ ret.h_donors_ok
  /\ ~ret.all_rules_passed

\* the catalog calls of check_pains_filter return on the molecule
PainsSearchReturns(s) ==
  /\ rdkit_available
  /\ Parses(s)
  /\ ~Throws(s, "FilterCatalog")
  /\ ~Throws(s, "GetDescription")

\* C6: check_pains_filter: pains_free is true iff the search of the molecule
\* against the PAINS catalog returns no match; with matches pains_free is
\* false, num_alerts is their number and matching_alerts holds one
\* {description, smarts} entry per match; without, num_alerts is 0 and
\* matching_alerts is empty.
C6_PainsFreeIffNoMatch ==
  (Called("check_pains_filter") /\ PainsSearchReturns(smiles))
    => /\ ret.pains_free = (smiles.alerts = 0)
       /\ ret.num_alerts = smiles.alerts
       /\ Len(ret.matching_alerts) = smiles.alerts
       /\ \A i \in 1..Len(ret.matching_alerts) :
            DOMAIN ret.matching_alerts[i] = {"description", "smarts"}

\* a molecule with two catalog matches is not PAINS free and lists both
C6_Witness ==
  /\ Called("check_pains_filter")
  /\ PainsSearchReturns(smiles)
  /\ smiles.alerts = 2
  /\ ~ret.pains_free
  /\ ret.num_alerts = 2
  /\ Len(ret.matching_alerts) = 2

\* the aggregate of a rule-set on a SMILES string: all_rules_passed of a
\* numeric rule-set, pains_free of pains
Aggregate(name, s) == RunCheck(name, s)[FilterResultKey(name)]

\* the names of args.rules as check_drug_likeness compares them
LoweredRules ==
  LET rules == IF args.rules_given THEN args.rules ELSE <<"lipinski">>
  IN  {Lower(rules[i]) : i \in 1..Len(rules)}

\* the rule-sets a call of check_drug_likeness asks for
RequestedRuleSets ==
  IF "all" \in LoweredRules THEN Range(RuleSetNames)
  ELSE LoweredRules \cap Range(RuleSetNames)

\* check_drug_likeness returned a result, not an error envelope
Answered == Called("check_drug_likeness") /\ "error" \notin DOMAIN ret

\* C7 as stated: whenever one or more rule-sets are requested (any non-empty
\* list of names, not only 'all'), the result carries an overall
\* all_filters_passed flag equal to the AND of the requested rule-sets'
\* aggregates.
C7_OverallFlagForAnyRequest ==
  (Answered /\ rdkit_available /\ RequestedRuleSets # {})
    => /\ "all_filters_passed" \in DOMAIN ret
       /\ ret["all_filters_passed"] = (\A n \in RequestedRuleSets : Aggregate(n, smiles))

\* C7 amended: the result carries an overall all_filters_passed flag exactly
\* when 'all' is among the requested names (compared in lower case); the flag
\* is then the AND of the six rule-sets' aggregates.  A request that names
\* single rule-sets only returns their results and no overall flag.
C7_OverallFlagOnlyForAll ==
  /\ Answered
       => /\ ("all_filters_passed" \in DOMAIN ret) = ("all" \in LoweredRules)
          /\ "all" \in LoweredRules
               => ret["all_filters_passed"]
                    = (\A n \in Range(RuleSetNames) : Aggregate(n, smiles))
  /\ Called("check_all_druglikeness_filters")
       => ret.all_filters_passed = (\A n \in Range(RuleSetNames) : Aggregate(n, smiles))

\* a request for veber and 'all' on a molecule with a PAINS alert: the flag
\* is there and false although the five numeric rule-sets pass
C7_Witness ==
  /\ Answered
  /\ rdkit_available
  /\ args.rules = <<"veber", "all">>
  /\ smiles.alerts > 0
  /\ \A n \in Range(RuleSetNames) \ {"pains"} : ret[n].all_rules_passed
  /\ ret["all_filters_passed"] = FALSE

\* the result of a call that evaluates all six rule-sets: ret of
\* check_all_druglikeness_filters, or of check_drug_likeness asked for 'all'
AllRequested ==
  \/ Called("check_all_druglikeness_filters")
  \/ Answered /\ "all" \in LoweredRules

\* the six entries of the result are the results of the six checks and the
\* overall flag is the conjunction of their aggregates
SixRuleSetsEvaluated ==
  /\ \A n \in Range(RuleSetNames) : ret[n] = RunCheck(n, smiles)
  /\ ret["all_filters_passed"]
       = (\A n \in Range(RuleSetNames) : ret[n][FilterResultKey(n)])

\* process_csv_data returned a result table
Merged == Called("process_csv_data") /\ "result" \in DOMAIN ret

\* the columns process_csv_data writes the requested properties to
PropertyColumns ==
  LET properties == IF args.properties_given THEN args.properties ELSE <<"molecular_weight">>
  IN  {PropertyColumn(read_csv(csv), ret.smiles_column, properties[i]) :
         i \in 1..Len(properties)}

FilterColumns == {FilterColumn(RuleSetNames[i]) : i \in 1..Len(RuleSetNames)}

\* in the batch entry point 'all' yields the six filter columns and
\* filters_applied lists the six names
BatchAllYieldsSixColumns ==
  (Merged /\ args.filters_given /\ "all" \in Range(args.filters))
    => /\ ret.filters_applied = RuleSetNames
       /\ Range(ret.result.header)
            = Range(csv.header) \cup PropertyColumns \cup FilterColumns

FlagFunctions ==
  {"check_drug_likeness", "check_all_druglikeness_filters",
   "get_druglikeness_filters_summary"}

\* C9: when no rule-set is requested the overall flag is absent and never
\* true; no entry point returns a true overall flag without the six
\* rule-sets evaluated and passed; the batch entry point adds no filter
\* column and no overall column when no filter is requested.
C9_NoFlagWithoutRuleSets ==
  /\ (Answered /\ RequestedRuleSets = {}) => "all_filters_passed" \notin DOMAIN ret
  /\ \A fn \in FlagFunctions :
       (Called(fn) /\ "all_filters_passed" \in DOMAIN ret /\ ret["all_filters_passed"] = TRUE)
         => /\ rdkit_available
            /\ \A n \in Range(RuleSetNames) : Aggregate(n, smiles)
  /\ Merged
       => /\ "all_filters_passed" \notin Range(ret.result.header)
          /\ (~args.filters_given \/ args.filters = <<>>)
               => /\ ret.filters_applied = <<>>
                  /\ Range(ret.result.header) = Range(csv.header) \cup PropertyColumns

\* an empty list of rules: the molecule's properties and no overall flag
C9_Witness ==
  /\ Answered
  /\ rdkit_available
  /\ args.rules_given
  /\ args.rules = <<>>
  /\ DOMAIN ret = {"smiles", "basic_properties"}

\* the cells of input column c, row by row
InputColumn(c) ==
  [i \in 1..Len(csv.rows) |-> csv.rows[i][IndexOf(csv.header, c)]]

\* the cells of column c of the result table, row by row
ResultColumn(c) ==
  [i \in 1..Len(ret.result.rows) |-> ret.result.rows[i][IndexOf(ret.result.header, c)]]

\* the values of property p on the structure strings of the input, as
\* written to a CSV text
ComputedColumn(p) ==
  [i \in 1..Len(csv.rows) |->
     CsvField(calculate_properties(
                CellSmiles(csv.rows[i][IndexOf(csv.header, ret.smiles_column)]))[p])]

\* C10: when a computed property's key names a column of the input table,
\* the computed values are added under '<key>_calculated' and the original
\* column keeps its values; when it names no input column, the computed
\* values are added under the key itself.
C10_ConflictingKeyGetsCalculatedColumn ==
  (Merged /\ rdkit_available /\ csv.rows # <<>>) =>
    \A p \in Range(ret.properties_added) \cap Range(BasicOrder) :
      IF p \in Range(csv.header)
      THEN /\ (p \o "_calculated") \in Range(ret.result.header)
           /\ ResultColumn(p \o "_calculated") = ComputedColumn(p)
           /\ ResultColumn(p) = InputColumn(p)
      ELSE /\ p \in Range(ret.result.header)
           /\ ResultColumn(p) = ComputedColumn(p)

\* C11: the merge keeps the number of rows and their order: the result table
\* of an input of n >= 0 rows has n rows, and row i of the result carries the
\* input columns of row i of the input, for every choice of properties and
\* filters.
C11_RowsCarryInputColumns ==
  Merged =>
    /\ Len(ret.result.rows) = Len(csv.rows)
    /\ \A c \in Range(csv.header) :
         /\ c \in Range(ret.result.header)
         /\ ResultColumn(c) = InputColumn(c)

\* the data line holds a string that parses in the structure column of the call
ParseableLine(line) ==
  Parses(CellSmiles(line[IndexOf(csv.header, ret.smiles_column)]))

\* the input table without the lines whose structure string does not parse
ParseableLines == [header |-> csv.header, rows |-> SelectSeq(csv.rows, ParseableLine)]

\* the position of line i among the lines that parse
ParseablePosition(i) == Cardinality({j \in 1..i : ParseableLine(csv.rows[j])})

\* the cell of row i in column c of a CSV text
Cell(table, i, c) == table.rows[i][IndexOf(table.header, c)]

\* the call gets a table with a header and names a structure column of it
WellFormedCall ==
  /\ Called("process_csv_data")
  /\ csv.header # <<>>
  /\ (args.column_given /\ args.column # "") => args.column \in Range(csv.header)

\* C12: a batch with rows whose structure string does not parse returns a
\* result table, not an error envelope; every property column is null in each
\* such row, and every row whose string parses has the property values it has
\* in the batch without the unparseable rows.
C12_UnparseableRowsAreNullAndIsolated ==
  WellFormedCall =>
    /\ Merged
    /\ Only({ \A i \in 1..Len(csv.rows) : \A c \in PropertyColumns :
                 IF ParseableLine(csv.rows[i])
                 THEN Cell(ret.result, i, c) = Cell(alone, ParseablePosition(i), c)
                 ELSE Cell(ret.result, i, c) = None
               : alone \in {process_csv_data(ParseableLines, args).result} })

\* an invalid string before aspirin: the first weight is null, the second
\* is aspirin's
C12_Witness ==
  /\ Merged
  /\ rdkit_available
  /\ ret.smiles_column = "smiles"
  /\ Len(csv.rows) = 2
  /\ ~ParseableLine(csv.rows[1])
  /\ ParseableLine(csv.rows[2])
  /\ "molecular_weight" \in PropertyColumns
  /\ Cell(ret.result, 1, "molecular_weight") = None
  /\ Cell(ret.result, 2, "molecular_weight") = Aspirin.vals["molecular_weight"]

\* the call names a structure column (an empty name counts as omitted)
ColumnSpecified == args.column_given /\ args.column # ""

\* C13: process_csv_data returns one of two envelopes: a mapping whose only
\* key is error, always so for empty csv_content and for a specified
\* smiles_column that is not a column of the table, or a mapping with the keys
\* result, message, smiles_column, properties_added and filters_applied.
C13_OneOfTwoEnvelopes ==
  Called("process_csv_data") =>
    IF csv.header = <<>> \/ (ColumnSpecified /\ args.column \notin Range(csv.header))
    THEN DOMAIN ret = {"error"}
    ELSE DOMAIN ret =
           {"result", "message", "smiles_column", "properties_added", "filters_applied"}

\* a table with a smiles column and a call that names the column SMILES
C13_Witness ==
  /\ Called("process_csv_data")
  /\ csv.header # <<>>
  /\ csv.rows # <<>>
  /\ args.column = "SMILES"
  /\ DOMAIN ret = {"error"}

\* the column the values of property p belong in: '<p>_calculated' when p
\* names an input column, p itself when it does not
ExpectedColumn(p) == IF p \in Range(csv.header) THEN p \o "_calculated" ELSE p

\* C14: the defaults of the batch entry point: without smiles_column the last
\* column of the table is the structure column and is reported; without
\* properties exactly the molecular_weight column is added; without filters
\* no filter column is added and filters_applied is empty; a given
\* smiles_column that exists is used and reported unchanged.
C14_BatchDefaults ==
  Merged =>
    /\ ~ColumnSpecified => ret.smiles_column = csv.header[Len(csv.header)]
    /\ ColumnSpecified => ret.smiles_column = args.column
    /\ ~args.properties_given
         => /\ ret.properties_added = <<"molecular_weight">>
            /\ Range(ret.result.header) \ (Range(csv.header) \cup FilterColumns)
                 = {ExpectedColumn("molecular_weight")}
            /\ ResultColumn(ExpectedColumn("molecular_weight"))
                 = ComputedColumn("molecular_weight")
    /\ ~args.filters_given
         => /\ ret.filters_applied = <<>>
            /\ Range(ret.result.header) \cap FilterColumns \subseteq Range(csv.header)

\* the calls that aggregate the descriptors of one SMILES string
Aggregated ==
  \/ Called("calculate_all_properties")
  \/ /\ Called("calculate_molecular_properties")
     /\ args.properties_given
     /\ Len(args.properties) = 1
     /\ Lower(args.properties[1]) = "all"

\* C15: for every SMILES string, parseable or not, the record of the
\* aggregator has the key 'smiles', and its value is the string as given.
C15_RecordEchoesSmiles ==
  (Aggregated /\ rdkit_available)
    => /\ "smiles" \in DOMAIN ret
       /\ ret.smiles = smiles.text

\* C16: aggregating an empty SMILES string gives a record of exactly the two
\* keys smiles (the input) and error; no descriptor key is in it.
C16_EmptySmilesGivesSmilesAndError ==
  (Aggregated /\ rdkit_available /\ smiles.text = "")
    => /\ DOMAIN ret = {"smiles", "error"}
       /\ ret.smiles = ""

\* the structure column of the call when the table has a header
StructureColumn == IF ColumnSpecified THEN args.column ELSE csv.header[Len(csv.header)]

\* the properties of the call whose key and whose '<key>_calculated' both name
\* input columns other than the structure column
DoublyTaken ==
  {p \in Range(IF args.properties_given THEN args.properties ELSE <<"molecular_weight">>) :
     /\ {p, p \o "_calculated"} \subseteq Range(csv.header)
     /\ StructureColumn \notin {p, p \o "_calculated"}}

\* C17: when the input table has both a column '<key>' and a column
\* '<key>_calculated' and property <key> is requested, the call reports an
\* error or writes the computed values under a further name: the input's
\* '<key>_calculated' values are in the result as they were given.
C17_CalculatedColumnSurvives ==
  (Called("process_csv_data") /\ rdkit_available /\ csv.header # <<>> /\ DoublyTaken # {})
    => \/ DOMAIN ret = {"error"}
       \/ /\ Merged
          /\ \A p \in DoublyTaken :
               ResultColumn(p \o "_calculated") = InputColumn(p \o "_calculated")

\* the numeric rule-set check named fn, applied to a SMILES string
RunNumericCheck(fn, s) ==
  CASE fn = "check_lipinski_rule" -> check_lipinski_rule(s)
    [] fn = "check_veber_rules" -> check_veber_rules(s)
    [] fn = "check_ghose_filter" -> check_ghose_filter(s)
    [] fn = "check_egan_filter" -> check_egan_filter(s)
    [] fn = "check_muegge_filter" -> check_muegge_filter(s)

\* the molecule s with every descriptor but k at a value inside all bounds
OnlyDescriptor(s, k) ==
  [s EXCEPT !.vals = [j \in RuleKeys |-> IF j = k THEN s.vals[j] ELSE Baseline[j]]]

\* C18: every numeric rule-set check returns a mapping with a fixed key set,
\* its flags and all_rules_passed, each a boolean, on every return path; a
\* flag has the outcome of its own bound whatever the other bounds give, and
\* all_rules_passed is the conjunction of the flags.
C18_FixedKeysAndConjunction ==
  \A fn \in NumericChecks :
    Called(fn) =>
      LET flags == DOMAIN FlagDependsOn(fn)
      IN  /\ DOMAIN ret = flags \cup {"all_rules_passed"}
          /\ \A k \in DOMAIN ret : ret[k] \in BOOLEAN
          /\ ret["all_rules_passed"] = (\A k \in flags : ret[k])
          /\ \A k \in flags :
               ret[k] = RunNumericCheck(fn, OnlyDescriptor(smiles, FlagDependsOn(fn)[k]))[k]

C18_Witness ==
  /\ Called("check_veber_rules")
  /\ ValuesPresent("check_veber_rules", smiles)
  /\ smiles.vals["num_rotatable_bonds"] = 11
  /\ ~ret.rotatable_bonds_ok
  /\ ret.tpsa_ok
  /\ ~ret.all_rules_passed

\* the columns a call of process_csv_data writes computed values to
AddedColumns ==
  PropertyColumns \cup {FilterColumn(ret.filters_applied[i]) : i \in 1..Len(ret.filters_applied)}

\* the input table with row i alone, and with its rows in reverse order
RowAlone(i) == [header |-> csv.header, rows |-> <<csv.rows[i]>>]

Reverse(rows) == [i \in 1..Len(rows) |-> rows[Len(rows) + 1 - i]]

\* C19: rows are processed independently: in a result table the cells of the
\* added property and filter columns of row i are the cells the row has when
\* it is processed alone, and the result of the rows in another order is the
\* result rows in that order.
C19_RowsAreIndependent ==
  Merged =>
    /\ \A i \in 1..Len(csv.rows) :
         Only({ \A c \in AddedColumns : Cell(ret.result, i, c) = Cell(alone, 1, c)
                : alone \in {process_csv_data(RowAlone(i), args).result} })
    /\ process_csv_data([csv EXCEPT !.rows = Reverse(csv.rows)], args).result.rows
         = Reverse(ret.result.rows)

C19_Witness ==
  /\ Merged
  /\ rdkit_available
  /\ ret.smiles_column = "smiles"
  /\ Len(csv.rows) = 2
  /\ ~ParseableLine(csv.rows[1])
  /\ ParseableLine(csv.rows[2])
  /\ "lipinski" \in Range(ret.filters_applied)
  /\ Cell(ret.result, 1, "lipinski_pass") # Cell(ret.result, 2, "lipinski_pass")
  /\ Cell(ret.result, 2, "lipinski_pass")
       = Cell(process_csv_data(RowAlone(2), args).result, 1, "lipinski_pass")

\* C20: for every parseable SMILES string every descriptor key of the catalog
\* is in the record of the aggregator, and none of them is skipped: a key
\* whose own computation does not raise holds its computed value.
C20_NoCatalogDescriptorSkipped ==
  (Called("calculate_all_properties") /\ rdkit_available /\ Parses(smiles))
    => \A k \in Range(get_available_properties) :
         /\ k \in DOMAIN ret
         /\ ~ComputeThrows(smiles, k) => ret[k] = Compute(smiles, k)

\* C21: get_available_properties lists all property names that can be
\* calculated: a name is in the list exactly when it is a key, other than a
\* fragment key, of the record of calculate_all_properties, and no name is
\* in the list twice.
C21_ListIsTheRecordKeys ==
  Called("calculate_all_properties") =>
    /\ Range(get_available_properties) = DOMAIN ret \ FragmentNames
    /\ \A i, j \in 1..Len(get_available_properties) :
         get_available_properties[i] = get_available_properties[j] => i = j

\* C22: process_csv_data leaves every input column untouched: the result
\* table has every input column under its name with the input's value in
\* every row, also when a requested property has the structure column's name
\* and when a filter column's name is the name of an input column.
C22_InputColumnsUntouched ==
  (Merged /\ rdkit_available /\ ret.smiles_column = "smiles")
    => \A c \in Range(csv.header) :
         c \in Range(ret.result.header) /\ ResultColumn(c) = InputColumn(c)

\* C23: for veber, ghose and egan every flag is the inclusive range test on
\* its descriptor: veber rotatable bonds <= 10 and TPSA <= 140; ghose
\* 160 <= MW <= 480, -0.4 <= LogP <= 5.6, 20 <= heavy atoms <= 70 and
\* 40 <= molar refractivity <= 130; egan LogP <= 5.88 and TPSA <= 131.6; a
\* value at a bound passes, and all_rules_passed is the conjunction of the
\* flags of the rule-set.
C23_InclusiveRangeTests ==
  LET v == smiles.vals
      Within(lo, k, hi) == lo <= v[k] /\ v[k] <= hi
  IN  /\ (Called("check_veber_rules") /\ ValuesPresent("check_veber_rules", smiles))
           => /\ ret.rotatable_bonds_ok = (v["num_rotatable_bonds"] <= 10)
              /\ ret.tpsa_ok = (v["tpsa"] <= 14000)
              /\ ret.all_rules_passed = (ret.rotatable_bonds_ok /\ ret.tpsa_ok)
      /\ (Called("check_ghose_filter") /\ ValuesPresent("check_ghose_filter", smiles))
           => /\ ret.molecular_weight_ok = Within(16000, "molecular_weight", 48000)
              /\ ret.logp_ok = Within(-40, "logp", 560)
              /\ ret.atom_count_ok = Within(20, "heavy_atom_count", 70)
              /\ ret.molar_refractivity_ok = Within(4000, "mol_mr", 13000)
              /\ ret.all_rules_passed =
                   (/\ ret.molecular_weight_ok /\ ret.logp_ok
                    /\ ret.atom_count_ok /\ ret.molar_refractivity_ok)
      /\ (Called("check_egan_filter") /\ ValuesPresent("check_egan_filter", smiles))
           => /\ ret.logp_ok = (v["logp"] <= 588)
              /\ ret.tpsa_ok = (v["tpsa"] <= 13160)
              /\ ret.all_rules_passed = (ret.logp_ok /\ ret.tpsa_ok)

\* a molecule with LogP exactly 5.88 passes the Egan filter
C23_Witness ==
  /\ Called("check_egan_filter")
  /\ ValuesPresent("check_egan_filter", smiles)
  /\ smiles.vals["logp"] = 588
  /\ ret.logp_ok
  /\ ret.all_rules_passed

\* a key of DRUGLIKENESS_FILTERS, compared as written
RecognisedName(name) ==
  name \in {"lipinski", "veber", "ghose", "egan", "muegge", "pains"}

\* C24: in process_csv_data without 'all', filters_applied is the
\* subsequence of the requested names that are rule-set names as written, in
\* request order; a name that is not one is dropped with no column and no
\* error, and there is exactly one filter column per applied filter.
C24_AppliedFiltersAreTheRecognisedNames ==
  (WellFormedCall /\ "all" \notin Range(args.filters))
    => /\ Merged
       /\ ret.filters_applied = SelectSeq(args.filters, RecognisedName)
       /\ \A f \in Range(ret.filters_applied) :
            Cardinality({j \in 1..Len(ret.result.header) :
                           ret.result.header[j] = FilterColumn(f)}) = 1
       /\ Range(ret.result.header)
            = Range(csv.header) \cup PropertyColumns
                \cup {FilterColumn(f) : f \in Range(ret.filters_applied)}

C24_Witness ==
  /\ Merged
  /\ args.filters = <<"Lipinski", "veber", "bogus">>
  /\ ret.filters_applied = <<"veber">>
  /\ csv.rows # <<>>
  /\ "veber_pass" \in Range(ret.result.header)
  /\ "lipinski_pass" \notin Range(ret.result.header)

\* the structure string of input row i parses
ParseableInput(i) ==
  Parses(CellSmiles(csv.rows[i][IndexOf(csv.header, ret.smiles_column)]))

\* the value of descriptor p on the structure string of input row i, as
\* written to a CSV text
DescriptorValue(i, p) ==
  CsvField(calculate_all_properties(
             CellSmiles(csv.rows[i][IndexOf(csv.header, ret.smiles_column)]))[p])

\* C25: in a result of process_csv_data, properties_added is the requested
\* list, and every catalog descriptor key in it, basic or not, has a column
\* in the result table that holds the computed value of the descriptor on
\* every row whose structure string parses.
C25_EveryRequestedDescriptorIsComputed ==
  (Merged /\ rdkit_available /\ ret.smiles_column \notin Range(ret.properties_added))
    => /\ ret.properties_added
            = (IF args.properties_given THEN args.properties ELSE <<"molecular_weight">>)
       /\ \A p \in Range(ret.properties_added) \cap Range(get_available_properties) :
            \E c \in {p, p \o "_calculated"} \cap Range(ret.result.header) :
              \A i \in 1..Len(csv.rows) :
                ParseableInput(i) => Cell(ret.result, i, c) = DescriptorValue(i, p)

\* the value of basic property p on the structure string of input row i, as
\* written to a CSV text
BasicValue(i, p) ==
  CsvField(mol_weight_calculate_properties(
             CellSmiles(csv.rows[i][IndexOf(csv.header, ret.smiles_column)]))[p])

\* C26: in add_molecular_weight of mol-weight.py the column that receives a
\* requested property is the same for every row: '<prop>_calculated' when the
\* property names an input column other than the structure column, '<prop>'
\* otherwise; it does not depend on the row or on columns created for earlier
\* rows.
C26_OneTargetColumnForAllRows ==
  (Called("add_molecular_weight") /\ "result" \in DOMAIN ret /\ rdkit_available)
    => \A p \in Range(ret.properties_added) \cap Range(BasicOrder) :
         (p # ret.smiles_column /\ csv.rows # <<>>)
           => /\ ExpectedColumn(p) \in Range(ret.result.header)
              /\ \A i \in 1..Len(csv.rows) :
                   Cell(ret.result, i, ExpectedColumn(p)) = BasicValue(i, p)

\* C27: for a structure string that does not parse every rule-set aggregate
\* is false: all_rules_passed of lipinski, veber, ghose, egan and muegge and
\* pains_free; in the batch output no filter column of an unparseable row
\* holds a passing value.
C27_UnparseableFailsEveryRuleSet ==
  /\ \A fn \in NumericChecks :
       (Called(fn) /\ rdkit_available /\ ~Parses(smiles)) => ~ret.all_rules_passed
  /\ (Called("check_pains_filter") /\ rdkit_available /\ ~Parses(smiles)) => ~ret.pains_free
  /\ (Merged /\ rdkit_available)
       => \A i \in 1..Len(csv.rows) : \A f \in Range(ret.filters_applied) :
            ~ParseableInput(i) => Cell(ret.result, i, FilterColumn(f)) # PyBool(TRUE)

\* C28: on every return path of check_pains_filter (no match, matches,
\* unparseable input, no toolkit, an exception while the match details are
\* collected) num_alerts is the length of matching_alerts and pains_free is
\* num_alerts = 0.
C28_AlertCountMatchesAlertList ==
  Called("check_pains_filter") =>
    /\ ret.num_alerts = Len(ret.matching_alerts)
    /\ ret.pains_free = (ret.num_alerts = 0)

\* C29: get_druglikeness_filters_summary agrees with the individual checks
\* for every input, with and without the toolkit: the five _pass flags are
\* the all_rules_passed of the checks, pains_free is that of
\* check_pains_filter, and all_filters_passed is the conjunction of the six
\* flags of the summary.
C29_SummaryAgreesWithChecks ==
  Called("get_druglikeness_filters_summary") =>
    /\ ret.lipinski_pass = check_lipinski_rule(smiles).all_rules_passed
    /\ ret.veber_pass = check_veber_rules(smiles).all_rules_passed
    /\ ret.ghose_pass = check_ghose_filter(smiles).all_rules_passed
    /\ ret.egan_pass = check_egan_filter(smiles).all_rules_passed
    /\ ret.muegge_pass = check_muegge_filter(smiles).all_rules_passed
    /\ ret.pains_free = check_pains_filter(smiles).pains_free
    /\ ret.all_filters_passed =
         (/\ ret.lipinski_pass /\ ret.veber_pass /\ ret.ghose_pass
          /\ ret.egan_pass /\ ret.muegge_pass /\ ret.pains_free)

\* C30: check_drug_likeness: without rules only lipinski is evaluated; with
\* a list without 'all' the result has one entry per requested rule-set name,
\* matched without regard to case, and none for another rule-set, and a name
\* that is no rule-set is ignored without error; every result that is no
\* error holds smiles, equal to the input, and basic_properties; an empty
\* smiles gives an error envelope and no rule-set is evaluated.
C30_OneEntryPerRequestedRuleSet ==
  Called("check_drug_likeness") =>
    IF smiles.text = ""
    THEN DOMAIN ret = {"error"}
    ELSE /\ "error" \notin DOMAIN ret
         /\ {"smiles", "basic_properties"} \subseteq DOMAIN ret
         /\ ret.smiles = smiles
         /\ ret.basic_properties = calculate_properties(smiles)
         /\ ~args.rules_given
              => /\ DOMAIN ret = {"lipinski", "smiles", "basic_properties"}
                 /\ ret.lipinski = check_lipinski_rule(smiles)
         /\ (args.rules_given /\ "all" \notin LoweredRules)
              => /\ DOMAIN ret = {n \in Range(RuleSetNames) :
                                    \E i \in 1..Len(args.rules) : Lower(args.rules[i]) = n}
                                 \cup {"smiles", "basic_properties"}
                 /\ \A n \in DOMAIN ret \cap Range(RuleSetNames) : ret[n] = RunCheck(n, smiles)

C30_Witness ==
  /\ Called("check_drug_likeness")
  /\ rdkit_available
  /\ smiles = Quinone
  /\ args.rules = <<"PAINS", "bogus">>
  /\ DOMAIN ret = {"pains", "smiles", "basic_properties"}
  /\ ~ret.pains.pains_free

====
